---- MODULE Spec2Model ----
(***************************************************************************)
(* Model of src/token_analyzer.py.                                         *)
(*                                                                         *)
(* Spec:     one run of SolanaTokenAnalyzer.analyze_token_holders against  *)
(*           a ledger data source whose answers are chosen                 *)
(*           nondeterministically.  One action per remote call, each       *)
(*           followed by the synchronous code that runs until the next     *)
(*           remote call.                                                  *)
(* SpecCli:  the same run inside the program's two entry points, cli_main  *)
(*           with --mint and the interactive main: snapshot capture,       *)
(*           export, display, cancellation at an await, close and exit.    *)
(* SpecPerm: analyze_token_holders applied to two listings that hold the   *)
(*           same entries in different orders.                             *)
(* SpecExport: export_to_csv and the range display of cli_main applied to  *)
(*           the Holder lists analyze_token_holders returns.               *)
(***************************************************************************)
EXTENDS Integers, Sequences, FiniteSets, TLC

\* ------------------------------------------------------------- bounds
MaxAccounts == 3
MaxLargest == 2
MaxAmount == 1
MaxSupply == 1
MaxCliAccounts == 2
MaxCliLargest == 1
StartRank == 2
MaxPermAccounts == 3
MaxExportAccounts == 3
MaxExportSupply == 3
MaxRank == 3

\* ---------------------------------------------------------- constants
MINT == "EPjFWdd5AufqSSqeM2qN1xzybapC8G4wEGGkZwyTDt1v"
TOKEN_PROGRAM == "TokenkegQfeZyiNwAJbNbGKPFXCWuBvf9Ss623VQ5DA"
SYSTEM_PROGRAM == "11111111111111111111111111111111"
UNLISTED_PROGRAM == "BPFLoaderUpgradeab1e11111111111111111111111"
UNKNOWN == "Unknown"

\* is_program_account: the known program owners
program_owners ==
    { "TokenkegQfeZyiNwAJbNbGKPFXCWuBvf9Ss623VQ5DA",
      "ATokenGPvbdGVxr1b2hvZbsiqW5xWH25efTNsLJA8knL",
      "JUP6LkbZbjS1jKKwapdHNy74zcZ3tLUZoi5QNyVTaV4",
      "whirLbMiicVdio4qvUfM5KAg6Ct8VwpYzGff3uctyCc",
      "9WzDXwBbmkg8ZTbNMqUxvQRAyrZzDsGYdLVL9zYtAWWM",
      "6EF8rrecthR5Dkzon8Nwu78hRvfCKubJ14M5uBEwF6P",
      "CAMMCzo5YL8w4VFF8KVHrK22GGUQzaNm4fLK7vQ4CxNE",
      "675kPX9MHTjS2zt1qfr1NYHuzeLXfQM9H24wFSUt1Mp8" }

\* ------------------------------------------------- the data source's answers
\* Wallets that own token accounts of the mint.
Wallets == {"walletA", "walletB"}

\* Raw amounts the listing can carry: int() of the amount field, an unsigned
\* 64-bit token amount of the ledger.
Amounts == 0 .. MaxAmount

\* Addresses of the token accounts of a listing, by position.
AccountAddresses == <<"acct1", "acct2", "acct3", "acct4", "acct5", "acct6">>

\* PublicKey.from_string raises on a string that is no base58 public key.
ValidPubkey(address) == address # UNKNOWN

\* ------------------------------------------------------------ mutants
\* Variants of the definitions below, each changed the way a slip in the code
\* would change it.
IncludeAccount_NonNegative(balance) == balance >= 0

KnownOwner_Never(owner_data, owner) == FALSE

AddToOwner_Overwrite(entry, account) ==
    [entry EXCEPT !.total_balance = account.amount,
                  !.account_addresses = Append(@, account.account_address)]

SortHolders_None(hs) == hs

IsProgramAnswer_NoExecutable(info) ==
    IF info.status \in {"notissued", "raise"} THEN FALSE
    ELSE IF info.status = "none" THEN FALSE
    ELSE info.owner \in program_owners

IsProgramAnswer_DefaultProgram(info) ==
    IF info.status \in {"notissued", "raise"} THEN TRUE
    ELSE IF info.status = "none" THEN TRUE
    ELSE info.executable \/ info.owner \in program_owners

ZeroSupply_Never(supply) == FALSE

AddToOwner_LastPrimary(entry, account) ==
    [entry EXCEPT !.total_balance = @ + account.amount,
                  !.account_addresses = Append(@, account.account_address),
                  !.primary_account = account.account_address]

ResolveOwner_RaiseToProgram(info) ==
    IF info.status = "none" THEN "Unknown"
    ELSE IF info.status = "raise" \/ info.data_len < 64 THEN info.owner
    ELSE info.data_owner

\* ------------------------------------------------------ the aggregation
\* analyze_token_holders, line 267: only accounts with positive balance.
IncludeAccount(balance) == balance > 0

\* line 268: owner in owner_data.  owner_data is a Python dict, modelled as
\* the sequence of its entries in insertion order, each carrying its key.
OwnerIndex(owner_data, owner) ==
    {k \in 1..Len(owner_data) : owner_data[k].owner = owner}

KnownOwner(owner_data, owner) == OwnerIndex(owner_data, owner) # {}

\* lines 269-270: add to the owner's entry.
AddToOwner(entry, account) ==
    [entry EXCEPT !.total_balance = @ + account.amount,
                  !.account_addresses = Append(@, account.account_address)]

\* lines 272-276: the owner's first account.
NewOwner(account) ==
    [owner |-> account.owner,
     total_balance |-> account.amount,
     account_addresses |-> <<account.account_address>>,
     primary_account |-> account.account_address]

\* lines 262-276: the body of the grouping loop for one account.
GroupAccount(owner_data, account) ==
    IF IncludeAccount(account.amount)
    THEN IF KnownOwner(owner_data, account.owner)
         THEN [k \in 1..Len(owner_data) |->
                  IF owner_data[k].owner = account.owner
                  THEN AddToOwner(owner_data[k], account)
                  ELSE owner_data[k]]
         ELSE Append(owner_data, NewOwner(account))
    ELSE owner_data

RECURSIVE GroupFrom(_, _)
GroupFrom(owner_data, accounts) ==
    IF accounts = <<>> THEN owner_data
    ELSE GroupFrom(GroupAccount(owner_data, Head(accounts)), Tail(accounts))

\* lines 259-279: the grouping loop over token_accounts.
GroupByOwner(token_accounts) == GroupFrom(<<>>, token_accounts)

\* ------------------------------------------------------- the percentage
\* line 291: (total_balance / total_supply) * 100.  The float is kept as the
\* exact fraction num/den: for the balances and supplies of the model the
\* double result orders and compares as the fraction does.
Percentage(total_balance, total_supply) ==
    [num |-> total_balance * 100, den |-> total_supply]

PctLess(p, q) == p.num * q.den < q.num * p.den

RECURSIVE InsertHolder_Unstable(_, _)
InsertHolder_Unstable(sorted, h) ==
    IF sorted = <<>> THEN <<h>>
    ELSE IF ~PctLess(h.percentage, Head(sorted).percentage)
         THEN <<h>> \o sorted
         ELSE <<Head(sorted)>> \o InsertHolder_Unstable(Tail(sorted), h)

\* --------------------------------------------------------- the ranking
\* line 307: holders.sort(key=percentage, reverse=True) is a stable sort:
\* holders of equal percentage keep the order they had in the list.
RECURSIVE InsertHolder(_, _)
InsertHolder(sorted, h) ==
    IF sorted = <<>> THEN <<h>>
    ELSE IF PctLess(Head(sorted).percentage, h.percentage)
         THEN <<h>> \o sorted
         ELSE <<Head(sorted)>> \o InsertHolder(Tail(sorted), h)

RECURSIVE SortFrom(_, _)
SortFrom(sorted, rest) ==
    IF rest = <<>> THEN sorted
    ELSE SortFrom(InsertHolder(sorted, Head(rest)), Tail(rest))

SortHolders(hs) == SortFrom(<<>>, hs)

\* ------------------------------------------------------ the classifier
\* A get_account_info answer: status "raise" (the call raised), "none"
\* (value is None) or "ok" (an account, with its executable flag, its
\* controlling program and the length and content of its data).  "notissued"
\* stands for PublicKey.from_string raising before the call is made.
NoAnswer ==
    [status |-> "notissued", executable |-> FALSE, owner |-> SYSTEM_PROGRAM,
     data_len |-> 0, data_owner |-> UNKNOWN]

\* is_program_account, lines 202-238, on the answer of the lookup.
IsProgramAnswer(info) ==
    IF info.status \in {"notissued", "raise"} THEN FALSE
    ELSE IF info.status = "none" THEN FALSE
    ELSE IF info.executable THEN TRUE
    ELSE IF info.owner \in program_owners THEN TRUE
    ELSE IF info.owner = SYSTEM_PROGRAM THEN FALSE
    ELSE FALSE

\* line 293
AccountType(is_program) == IF is_program THEN "program" ELSE "user"

\* lines 291-304: the Holder of one owner_data entry.
MakeHolder(data, total_supply, is_program) ==
    [address |-> data.primary_account,
     owner |-> data.owner,
     balance |-> data.total_balance,
     percentage |-> Percentage(data.total_balance, total_supply),
     account_type |-> AccountType(is_program)]

\* ------------------------------------------------ the account resolver
\* get_token_accounts_with_owners, lines 98-107: the entries of the detailed
\* listing that carry parsed info; the others are passed over.
RECURSIVE ParseDetailed(_)
ParseDetailed(value) ==
    IF value = <<>> THEN <<>>
    ELSE LET e == Head(value) IN
         IF e.kind = "parsed"
         THEN <<[account_address |-> e.account_address,
                 owner |-> e.owner,
                 amount |-> e.amount]>> \o ParseDetailed(Tail(value))
         ELSE ParseDetailed(Tail(value))

\* An entry whose fields cannot be read raises inside the try of line 90.
DetailedRaises(value) == \E k \in 1..Len(value) : value[k].kind = "malformed"

\* lines 96 and 109: the detailed strategy gave a list to return.
DetailedSucceeds(resp) ==
    resp.status = "ok" /\ resp.value # <<>> /\ ~DetailedRaises(resp.value)

\* lines 132-151 and 168-174: the owner of one account of the summary listing.
ResolveOwner(info) ==
    IF info.status = "raise" THEN UNKNOWN
    ELSE IF info.status = "none" \/ info.data_len = 0 THEN UNKNOWN
    ELSE IF info.data_len >= 32
         THEN IF info.data_len >= 64 THEN info.data_owner ELSE info.owner
         ELSE info.owner

\* lines 188-194: the error raised when the listing cannot be fetched.
FetchError(message) ==
    IF message \in {"429", "rate"} THEN "AccountListFetchError.RateLimited"
    ELSE IF message = "not found" THEN "AccountListFetchError.NotFound"
    ELSE "AccountListFetchError.Other"

\* --------------------------------------------------------- exceptions
\* An exception on its way to the caller: the pieces of its message and, as
\* context, the message of the exception it was raised from ("" when none).
NoException == [message |-> <<>>, context |-> ""]

SupplyError_Bare(e) == [message |-> <<e>>, context |-> e]

\* line 82
SupplyError(e) ==
    [message |-> <<"Failed to get token supply: ", e>>, context |-> e]

\* line 247
ZeroSupplyException ==
    [message |-> <<"Token not found or has zero supply">>, context |-> ""]

\* line 254
NoAccountsException ==
    [message |-> <<"No token accounts found">>, context |-> ""]

\* lines 188-194: the exception raised when the listing cannot be fetched.
FetchException(e) ==
    IF FetchError(e) = "AccountListFetchError.RateLimited"
    THEN [message |-> <<"Rate limited by RPC endpoint. Try again later or use a different RPC endpoint.">>,
          context |-> e]
    ELSE IF FetchError(e) = "AccountListFetchError.NotFound"
    THEN [message |-> <<"Token not found or has no holders.">>, context |-> e]
    ELSE [message |-> <<"Unable to fetch token holders. This might be due to: token has no holders, token is too new/small, or API limitations. Error: ", e>>,
          context |-> e]

\* A printed warning: its text and the address it is about.
Warning(text, about) == [text |-> text, about |-> about]

\* ------------------------------------------------- command-line layer
\* The value of get_slot and of get_block_time in the answers explored.
SLOT == 250000000
BLOCK_TIME == 1704164645

\* The exit status of a process that ends normally, and of one ended by
\* the KeyboardInterrupt that asyncio.run re-raises.
EXIT_OK == 0
EXIT_INTERRUPT == 130

\* A datetime: the clock it was read from and the reading.
FromTimestamp(block_time) == [clock |-> "ledger", at |-> "block_time"]

Now(caller) == [clock |-> "local", at |-> caller]

NoTime == [clock |-> "", at |-> ""]

NoSnapshot == [block_number |-> 0, timestamp |-> NoTime, slot |-> 0]

\* lines 57-63: the SnapshotInfo built from the slot and the block time.
SnapshotInfo(slot, block_time) ==
    [block_number |-> slot,
     timestamp |-> IF block_time.status = "ok" /\ block_time.value # 0
                   THEN FromTimestamp(block_time.value)
                   ELSE Now("get_snapshot_info"),
     slot |-> slot]

\* lines 64-71: the SnapshotInfo returned when a call of the capture raised.
FallbackSnapshot ==
    [block_number |-> 0, timestamp |-> Now("get_snapshot_info"), slot |-> 0]

SlotAnswers == {[status |-> "ok", value |-> SLOT], [status |-> "raise", value |-> 0]}

BlockTimeAnswers ==
    {[status |-> "ok", value |-> BLOCK_TIME], [status |-> "none", value |-> 0],
     [status |-> "raise", value |-> 0]}

\* cli_main: the options explored (--csv, --csv-only, --start).  They are
\* first read at line 471, where the analyze action draws them.
NoArgs == [csv |-> FALSE, csv_only |-> FALSE, start |-> 0]

CliArgs ==
    {NoArgs, [NoArgs EXCEPT !.csv = TRUE], [NoArgs EXCEPT !.csv_only = TRUE],
     [NoArgs EXCEPT !.start = StartRank]}

\* main lines 358-369: what the user types at the prompt.
MintInputs == {"", "not a public key", MINT}

NoExport == [written |-> FALSE, snapshot |-> NoSnapshot, holders |-> <<>>]

ExportSnapshot_Fresh(snapshot) ==
    [snapshot EXCEPT !.timestamp = Now("export_to_csv")]

\* export_to_csv lines 329-331: the snapshot written to the metadata rows.
ExportSnapshot(snapshot) == snapshot

\* lines 311-350: the file written.
ExportToCsv(hs, snapshot) ==
    [written |-> TRUE, snapshot |-> ExportSnapshot(snapshot), holders |-> hs]

\* lines 487-503: the holders shown (start = 0 stands for no --start).
DisplayHolders(hs, start) ==
    IF start = 0 THEN hs
    ELSE IF start - 1 >= Len(hs) THEN <<>>
    ELSE SubSeq(hs, start, Len(hs))

Finally_NotOnCancel(path) == IF path = "cancelled" THEN "exit" ELSE "close"

\* lines 550-551 and 435-436: the finally clause runs on every way out.
Finally(path) == "close"

\* lines 548-549 and 433-434 print the error and fall through to the end
\* of the coroutine; only an interrupt leaves asyncio.run with an exception.
ExitStatus(path) == IF path = "cancelled" THEN EXIT_INTERRUPT ELSE EXIT_OK

\* ------------------------------------------------------ the export file
\* A text is a sequence of characters.  An address, a label or a column
\* name whose characters are never inspected is written as one element.
DIGITS == <<"0", "1", "2", "3", "4", "5", "6", "7", "8", "9">>

\* str(n) and f"{n}" of a natural number.
RECURSIVE Str(_)
Str(n) ==
    IF n < 10 THEN <<DIGITS[n + 1]>>
    ELSE Str(n \div 10) \o <<DIGITS[(n % 10) + 1]>>

\* %0<width>d of a natural number below 10^width.
RECURSIVE ZeroPad(_, _)
ZeroPad(n, width) ==
    IF width = 0 THEN <<>>
    ELSE ZeroPad(n \div 10, width - 1) \o <<DIGITS[(n % 10) + 1]>>

\* Python's None, and a value that was given.
None == <<>>

Some(x) == <<x>>

\* "if x" of an optional integer: None and 0 are false.
Truthy(x) == x # None /\ x # Some(0)

\* line 346: the digits after the point in "{:.6f}".
DECIMALS == 6

\* The nearest integer to num / den, a tie going to the even one.
RoundHalfEven(num, den) ==
    LET q == num \div den
        r == num % den
    IN  IF 2 * r < den THEN q
        ELSE IF 2 * r > den THEN q + 1
        ELSE IF q % 2 = 0 THEN q ELSE q + 1

FormatPercentage_TwoDecimals(p) ==
    LET hundredths == RoundHalfEven(p.num * 100, p.den)
    IN  Str(hundredths \div 100) \o <<".">> \o ZeroPad(hundredths % 100, 2)

\* line 346: f"{holder.percentage:.6f}".
FormatPercentage(p) ==
    LET unit == 10 ^ DECIMALS
        scaled == RoundHalfEven(p.num * unit, p.den)
    IN  Str(scaled \div unit) \o <<".">> \o ZeroPad(scaled % unit, DECIMALS)

\* A datetime and the two renderings export_to_csv makes of it.
DateTime(year, month, day, hour, minute, second, microsecond) ==
    [year |-> year, month |-> month, day |-> day, hour |-> hour,
     minute |-> minute, second |-> second, microsecond |-> microsecond]

\* line 315: strftime("%Y%m%d_%H%M%S").
StrfTime(t) ==
    ZeroPad(t.year, 4) \o ZeroPad(t.month, 2) \o ZeroPad(t.day, 2) \o <<"_">>
        \o ZeroPad(t.hour, 2) \o ZeroPad(t.minute, 2) \o ZeroPad(t.second, 2)

\* lines 331-332: isoformat(), which prints the microseconds when there are
\* some.
IsoFormat(t) ==
    ZeroPad(t.year, 4) \o <<"-">> \o ZeroPad(t.month, 2) \o <<"-">>
        \o ZeroPad(t.day, 2) \o <<"T">> \o ZeroPad(t.hour, 2) \o <<":">>
        \o ZeroPad(t.minute, 2) \o <<":">> \o ZeroPad(t.second, 2)
        \o (IF t.microsecond = 0 THEN <<>>
            ELSE <<".">> \o ZeroPad(t.microsecond, 6))

\* The mint addresses export_to_csv is given, as texts.
MINT_TEXT ==
    <<"E", "P", "j", "F", "W", "d", "d", "5", "A", "u", "f", "q", "S", "S",
      "q", "e", "M", "2", "q", "N", "1", "x", "z", "y", "b", "a", "p", "C",
      "8", "G", "4", "w", "E", "G", "G", "k", "Z", "w", "y", "T", "D", "t",
      "1", "v">>

WRAPPED_SOL_TEXT ==
    <<"S", "o", "1", "1", "1", "1", "1", "1", "1", "1", "1", "1", "1", "1",
      "1", "1", "1", "1", "1", "1", "1", "1", "1", "1", "1", "1", "1", "1",
      "1", "1", "1", "1", "1", "1", "1", "1", "1", "1", "1", "1", "1", "1",
      "2">>

MintTexts == {MINT_TEXT, WRAPPED_SOL_TEXT}

\* text[:n]
Prefix(text, n) == SubSeq(text, 1, IF n < Len(text) THEN n ELSE Len(text))

\* text.endswith(suffix)
EndsWith(text, suffix) ==
    /\ Len(text) >= Len(suffix)
    /\ SubSeq(text, Len(text) - Len(suffix) + 1, Len(text)) = suffix

CSV_SUFFIX == <<".", "c", "s", "v">>

DefaultFilename_WholeMint(mint_address, snapshot) ==
    <<"token_holders_">> \o mint_address \o <<"_">>
        \o StrfTime(snapshot.timestamp) \o CSV_SUFFIX

\* lines 315-317: the name made when no filename is given.
DefaultFilename(mint_address, snapshot) ==
    <<"token_holders_">> \o Prefix(mint_address, 8) \o <<"_">>
        \o StrfTime(snapshot.timestamp) \o CSV_SUFFIX

EnsureCsv_Always(filename) == filename \o CSV_SUFFIX

\* lines 320-321: the .csv extension is added to a name that lacks it.
EnsureCsv(filename) ==
    IF EndsWith(filename, CSV_SUFFIX) THEN filename
    ELSE filename \o CSV_SUFFIX

\* "if not filename": None and the empty string are false.
NoName(filename) == filename = None \/ filename = Some(<<>>)

\* lines 313-321: the name of the file export_to_csv opens.
Filename(filename, mint_address, snapshot) ==
    EnsureCsv(IF NoName(filename) THEN DefaultFilename(mint_address, snapshot)
              ELSE filename[1])

\* csv.writer.writerow: the fields of a row joined by commas.  None of the
\* fields written holds a comma, a quote or a line break, so none is quoted.
RECURSIVE JoinRow(_)
JoinRow(row) ==
    IF row = <<>> THEN <<>>
    ELSE IF Len(row) = 1 THEN row[1]
    ELSE row[1] \o <<",">> \o JoinRow(Tail(row))

MetadataRows_NoExportTime(hs, mint_address, snapshot, now) ==
    << << <<"#", " Token Holder Analysis Export">> >>,
       << <<"#", " Mint Address:">>, mint_address >>,
       << <<"#", " Snapshot Block:">>, Str(snapshot.block_number) >>,
       << <<"#", " Snapshot Slot:">>, Str(snapshot.slot) >>,
       << <<"#", " Snapshot Time:">>, IsoFormat(snapshot.timestamp) >>,
       << <<"#", " Total Holders:">>, Str(Len(hs)) >> >>

\* lines 327-333: the title row and the six metadata rows.
MetadataRows(hs, mint_address, snapshot, now) ==
    << << <<"#", " Token Holder Analysis Export">> >>,
       << <<"#", " Mint Address:">>, mint_address >>,
       << <<"#", " Snapshot Block:">>, Str(snapshot.block_number) >>,
       << <<"#", " Snapshot Slot:">>, Str(snapshot.slot) >>,
       << <<"#", " Snapshot Time:">>, IsoFormat(snapshot.timestamp) >>,
       << <<"#", " Export Time:">>, IsoFormat(now) >>,
       << <<"#", " Total Holders:">>, Str(Len(hs)) >> >>

\* line 337: the column names.
HeaderRow ==
    << <<"Rank">>, <<"Token_Account">>, <<"Owner_Address">>, <<"Balance">>,
       <<"Percentage">>, <<"Account_Type">> >>

DataRow_OwnerFirst(rank, holder) ==
    << Str(rank), <<holder.owner>>, <<holder.address>>, Str(holder.balance),
       FormatPercentage(holder.percentage), <<holder.account_type>> >>

\* lines 341-348: the row of the holder at position rank.
DataRow(rank, holder) ==
    << Str(rank), <<holder.address>>, <<holder.owner>>, Str(holder.balance),
       FormatPercentage(holder.percentage), <<holder.account_type>> >>

\* lines 340-348: for i, holder in enumerate(holders, 1).
DataRows(hs) == [k \in 1..Len(hs) |-> DataRow(k, hs[k])]

\* lines 323-348: the lines of the file, in the order they are written.
CsvLines(hs, mint_address, snapshot, now) ==
    LET rows == MetadataRows(hs, mint_address, snapshot, now)
                    \o << <<>> >> \o <<HeaderRow>> \o DataRows(hs)
    IN  [k \in 1..Len(rows) |-> JoinRow(rows[k])]

NoFile == [name |-> <<>>, lines |-> <<>>]

\* The arguments of a call that was not made.
NoRequest ==
    [mint_address |-> <<>>, snapshot_info |-> NoSnapshot, filename |-> None,
     start |-> None, end |-> None]

\* ------------------------------------------------------ the range display
\* line 442: the default of --limit.
LIMIT == 100

\* seq[lo:hi] of Python: a negative bound counts from the end, and a bound
\* beyond an end stops there.
SliceBound(n, len) ==
    IF n < 0 THEN (IF len + n < 0 THEN 0 ELSE len + n)
    ELSE IF n > len THEN len ELSE n

Slice(seq, lo, hi) ==
    SubSeq(seq, SliceBound(lo, Len(seq)) + 1, SliceBound(hi, Len(seq)))

NoTable == [printed |-> FALSE, rows |-> <<>>]

\* line 511: actual_rank for the k-th holder displayed (i = k - 1).
ActualRank(start, start_idx, k) ==
    (IF Truthy(start) THEN start[1] - 1 ELSE 0) + (k - 1) + 1

\* lines 487-521: the rows of the table, or no table when the start is
\* beyond the list.
TableData(hs, start, end, limit) ==
    IF start # None \/ end # None
    THEN LET s == IF Truthy(start) THEN start[1] - 1 ELSE 0
             start_idx == IF s > 0 THEN s ELSE 0
             e == IF Truthy(end) THEN end[1] ELSE Len(hs)
             end_idx == IF e < Len(hs) THEN e ELSE Len(hs)
             display_holders == Slice(hs, start_idx, end_idx)
         IN  IF start_idx >= Len(hs) THEN NoTable
             ELSE [printed |-> TRUE,
                   rows |-> [k \in 1..Len(display_holders) |->
                               [rank |-> ActualRank(start, start_idx, k),
                                holder |-> display_holders[k]]]]
    ELSE LET display_holders == Slice(hs, 0, limit)
         IN  [printed |-> TRUE,
              rows |-> [k \in 1..Len(display_holders) |->
                          [rank |-> ActualRank(start, 0, k),
                           holder |-> display_holders[k]]]]

VARIABLES
    pc,              \* the remote call the run is about to make, or "done"
    outcome,         \* "running", "returned" or the error raised to the caller
    total_supply,    \* analyze_token_holders: total_supply
    value,           \* get_token_accounts_with_owners: response.value
    accounts_with_owners, \* get_token_accounts_with_owners: accounts_with_owners
    token_accounts,  \* analyze_token_holders: token_accounts
    owner_data,      \* analyze_token_holders: owner_data, in insertion order
    holders,         \* analyze_token_holders: holders
    i,               \* the index of the loop in progress
    calls,           \* the remote calls made so far, in order
    last_lookup,     \* the last classification: its owner and the answer
    warnings,        \* the warnings printed so far, in order
    exception,       \* the exception that reached the caller of the analysis
    mode,            \* the entry point: "library", "cli" (--mint) or "interactive"
    snapshot_info,   \* analyze: snapshot_info
    exported,        \* the file written by export_to_csv
    displayed,       \* the holders printed in the table
    reported,        \* the message of the "Error:" line printed
    closed,          \* the number of times analyzer.close() was awaited
    exit_path,       \* the way the invocation left its try block
    exit_status,     \* the exit status of the process
    permuted,        \* a second listing: the entries of token_accounts reordered
    permuted_holders,\* the Holder list returned for the second listing
    is_program,      \* the classification answer of each owner, for both runs
    request,         \* the arguments of the export_to_csv or display call made
    csvfile,         \* export_to_csv: the file opened, its name and its lines
    filename,        \* export_to_csv: the name returned
    table_data       \* cli_main.analyze: table_data, and whether it was printed

vars ==
    << pc, outcome, total_supply, value, accounts_with_owners, token_accounts,
       owner_data, holders, i, calls, last_lookup, warnings, exception,
       mode, snapshot_info, exported, displayed, reported, closed,
       exit_path, exit_status, permuted, permuted_holders, is_program,
       request, csvfile, filename, table_data >>

\* The second run of the comparison of two listings.
perm_vars == << permuted, permuted_holders, is_program >>

export_vars == << request, csvfile, filename, table_data >>

\* The state of the command-line layer around analyze_token_holders.
cli_vars ==
    << mode, snapshot_info, exported, displayed, reported, closed,
       exit_path, exit_status >>

\* The listings explored are shorter under the command-line entry points.
AccountsBound == IF mode = "library" THEN MaxAccounts ELSE MaxCliAccounts

LargestBound == IF mode = "library" THEN MaxLargest ELSE MaxCliLargest


\* ------------------------------------------------------------ answers
SupplyAnswers ==
    {[status |-> "raise", amount |-> 0, message |-> "Network error"],
     [status |-> "none", amount |-> 0, message |-> ""]}
    \cup {[status |-> "ok", amount |-> a, message |-> ""] : a \in 0..MaxSupply}

DetailedEntries ==
    {[kind |-> "parsed", owner |-> o, amount |-> a] : o \in Wallets, a \in Amounts}
    \cup {[kind |-> "noinfo", owner |-> "", amount |-> 0],
          [kind |-> "malformed", owner |-> "", amount |-> 0]}

DetailedListings ==
    UNION {[1..n -> DetailedEntries] : n \in 0..AccountsBound}

DetailedValue(l) ==
    [k \in 1..Len(l) |->
        [account_address |-> AccountAddresses[k], kind |-> l[k].kind,
         owner |-> l[k].owner, amount |-> l[k].amount]]

DetailedAnswers ==
    {[status |-> "raise", value |-> <<>>]}
    \cup {[status |-> "ok", value |-> DetailedValue(l)] : l \in DetailedListings}

LargestListings == UNION {[1..n -> Amounts] : n \in 0..LargestBound}

LargestValue(l) ==
    [k \in 1..Len(l) |->
        [account_address |-> AccountAddresses[k], kind |-> "largest",
         owner |-> "", amount |-> l[k]]]

LargestAnswers ==
    {[status |-> "raise", message |-> m, value |-> <<>>] :
        m \in {"429", "not found", "timeout"}}
    \cup {[status |-> "ok", message |-> "", value |-> LargestValue(l)] :
            l \in LargestListings}

\* get_account_info on a token account (owner resolution).
TokenAccountAnswers ==
    {[NoAnswer EXCEPT !.status = "raise"], [NoAnswer EXCEPT !.status = "none"]}
    \cup {[status |-> "ok", executable |-> FALSE, owner |-> TOKEN_PROGRAM,
           data_len |-> n, data_owner |-> w] :
            n \in {16, 48, 165}, w \in Wallets}
    \cup {[status |-> "ok", executable |-> FALSE, owner |-> TOKEN_PROGRAM,
           data_len |-> 0, data_owner |-> UNKNOWN]}

\* get_account_info on an owner (classification).
ControllingPrograms == program_owners \cup {SYSTEM_PROGRAM, UNLISTED_PROGRAM}

OwnerAnswers ==
    {[NoAnswer EXCEPT !.status = "raise"], [NoAnswer EXCEPT !.status = "none"]}
    \cup {[status |-> "ok", executable |-> x, owner |-> c,
           data_len |-> 0, data_owner |-> UNKNOWN] :
            x \in BOOLEAN, c \in ControllingPrograms}

\* -------------------------------------------------------------- state
Call(op, site, target, result) ==
    [op |-> op, site |-> site, target |-> target, result |-> result]

Init ==
    /\ pc = "get_token_supply"
    /\ outcome = "running"
    /\ total_supply = 0
    /\ value = <<>>
    /\ accounts_with_owners = <<>>
    /\ token_accounts = <<>>
    /\ owner_data = <<>>
    /\ holders = <<>>
    /\ i = 0
    /\ calls = <<>>
    /\ last_lookup = [target |-> "", info |-> NoAnswer]
    /\ warnings = <<>>
    /\ exception = NoException
    /\ mode = "library"
    /\ snapshot_info = NoSnapshot
    /\ exported = NoExport
    /\ displayed = <<>>
    /\ reported = <<>>
    /\ closed = 0
    /\ exit_path = ""
    /\ exit_status = EXIT_OK
    /\ permuted = <<>>
    /\ permuted_holders = <<>>
    /\ is_program = <<>>
    /\ request = NoRequest
    /\ csvfile = NoFile
    /\ filename = None
    /\ table_data = NoTable

\* line 246: the zero-supply check.
ZeroSupply(supply) == supply = 0

\* lines 245-249: get_token_supply (lines 73-82) and the zero-supply check.
get_token_supply ==
    /\ pc = "get_token_supply"
    /\ \E resp \in SupplyAnswers :
         LET supply == IF resp.status = "ok" THEN resp.amount ELSE 0 IN
         /\ calls' = Append(calls, Call("get_token_supply", "supply", MINT, resp.status))
         /\ total_supply' = supply
         /\ outcome' = IF resp.status = "raise" THEN "SupplyFetchError"
                       ELSE IF ZeroSupply(supply) THEN "ZeroSupplyError"
                       ELSE outcome
         /\ exception' = IF resp.status = "raise" THEN SupplyError(resp.message)
                         ELSE IF ZeroSupply(supply) THEN ZeroSupplyException
                         ELSE exception
         /\ pc' = IF resp.status = "raise" \/ ZeroSupply(supply) THEN "done"
                  ELSE "get_token_accounts_by_mint"
    /\ UNCHANGED << value, accounts_with_owners, token_accounts, owner_data,
                    holders, i, last_lookup, warnings >>
    /\ UNCHANGED << cli_vars, perm_vars, export_vars >>

\* lines 252-285 and 306-309: what analyze_token_holders does with the list
\* get_token_accounts_with_owners returned, up to its next remote call.
Listed(accounts) ==
    /\ token_accounts' = accounts
    /\ i' = 1
    /\ exception' = IF accounts = <<>> THEN NoAccountsException ELSE exception
    /\ IF accounts = <<>>
       THEN /\ outcome' = "NoAccountsError"
            /\ pc' = "done"
            /\ owner_data' = owner_data
            /\ holders' = holders
       ELSE LET grouped == GroupByOwner(accounts) IN
            /\ owner_data' = grouped
            /\ IF grouped = <<>>
               THEN /\ holders' = SortHolders(<<>>)
                    /\ outcome' = "returned"
                    /\ pc' = "done"
               ELSE /\ holders' = <<>>
                    /\ outcome' = outcome
                    /\ pc' = "is_program_account"

AfterDetailed_NoFallback(resp) ==
    IF resp.status = "ok" /\ resp.value # <<>>
          /\ \A k \in 1..Len(resp.value) : resp.value[k].kind # "malformed"
    THEN "return" ELSE "raise"

\* line 109-113: where the resolver goes when the detailed strategy gave no list.
AfterDetailed(resp) ==
    IF DetailedSucceeds(resp) THEN "return" ELSE "get_token_largest_accounts"

\* lines 90-110: the detailed strategy.
get_token_accounts_by_mint ==
    /\ pc = "get_token_accounts_by_mint"
    /\ \E resp \in DetailedAnswers :
         /\ calls' = Append(calls, Call("get_token_accounts_by_mint", "listing",
                                        MINT, resp.status))
         /\ value' = resp.value
         /\ warnings' = IF resp.status = "raise" \/ DetailedRaises(resp.value)
                        THEN Append(warnings,
                                    Warning("get_token_accounts_by_mint failed", MINT))
                        ELSE warnings
         /\ IF AfterDetailed(resp) = "return"
            THEN /\ accounts_with_owners' = ParseDetailed(resp.value)
                 /\ Listed(ParseDetailed(resp.value))
            ELSE IF AfterDetailed(resp) = "get_token_largest_accounts"
            THEN /\ pc' = "get_token_largest_accounts"
                 /\ UNCHANGED << outcome, accounts_with_owners, token_accounts,
                                 owner_data, holders, i, exception >>
            ELSE \* an exception that leaves the try of line 90 reaches line 182
                 /\ pc' = "done"
                 /\ outcome' = FetchError("get_token_accounts_by_mint failed")
                 /\ exception' = FetchException("get_token_accounts_by_mint failed")
                 /\ UNCHANGED << accounts_with_owners, token_accounts,
                                 owner_data, holders, i >>
    /\ UNCHANGED << total_supply, last_lookup >>
    /\ UNCHANGED << cli_vars, perm_vars, export_vars >>

\* lines 113-122 and 180-194: the summary strategy's listing call.
get_token_largest_accounts ==
    /\ pc = "get_token_largest_accounts"
    /\ \E resp \in LargestAnswers :
         /\ calls' = Append(calls, Call("get_token_largest_accounts", "listing",
                                        MINT, resp.status))
         /\ value' = resp.value
         /\ IF resp.status = "raise"
            THEN /\ outcome' = FetchError(resp.message)
                 /\ exception' = FetchException(resp.message)
                 /\ pc' = "done"
                 /\ UNCHANGED << accounts_with_owners, token_accounts,
                                 owner_data, holders, i >>
            ELSE IF resp.value = <<>>
            THEN /\ accounts_with_owners' = <<>>
                 /\ Listed(<<>>)
            ELSE /\ accounts_with_owners' = <<>>
                 /\ i' = 1
                 /\ pc' = "get_account_info"
                 /\ UNCHANGED << outcome, token_accounts, owner_data, holders,
                                 exception >>
    /\ UNCHANGED << total_supply, last_lookup, warnings >>
    /\ UNCHANGED << cli_vars, perm_vars, export_vars >>

\* lines 124-178: one iteration of the owner lookup loop of the summary
\* strategy; after the last one the list is returned.
get_account_info ==
    /\ pc = "get_account_info"
    /\ \E info \in TokenAccountAnswers :
         LET account == value[i]
             resolved == Append(accounts_with_owners,
                                [account_address |-> account.account_address,
                                 owner |-> ResolveOwner(info),
                                 amount |-> account.amount])
         IN
         /\ calls' = Append(calls, Call("get_account_info", "resolve",
                                        account.account_address, info.status))
         /\ accounts_with_owners' = resolved
         /\ warnings' = IF info.status = "raise"
                        THEN Append(warnings,
                                    Warning("Failed to get owner for account",
                                            account.account_address))
                        ELSE warnings
         /\ IF i = Len(value)
            THEN Listed(resolved)
            ELSE /\ i' = i + 1
                 /\ UNCHANGED << pc, outcome, token_accounts, owner_data, holders,
                                 exception >>
    /\ UNCHANGED << total_supply, value, last_lookup >>
    /\ UNCHANGED << cli_vars, perm_vars, export_vars >>

LastOwner_First(k, data) == k >= 1

\* line 287: the loop over owner_data.items() ends after its last entry.
LastOwner(k, data) == k = Len(data)

\* lines 287-309: one iteration of the classification loop (is_program_account,
\* lines 196-238); after the last one the holders are sorted and returned.
is_program_account ==
    /\ pc = "is_program_account"
    /\ LET data == owner_data[i] IN
       \E info \in (IF ValidPubkey(data.owner) THEN OwnerAnswers ELSE {NoAnswer}) :
         LET appended == Append(holders,
                                MakeHolder(data, total_supply, IsProgramAnswer(info)))
         IN
         /\ calls' = IF info.status = "notissued" THEN calls
                     ELSE Append(calls, Call("get_account_info", "classify",
                                             data.owner, info.status))
         /\ last_lookup' = [target |-> data.owner, info |-> info]
         /\ IF LastOwner(i, owner_data)
            THEN /\ holders' = SortHolders(appended)
                 /\ outcome' = "returned"
                 /\ pc' = "done"
            ELSE /\ holders' = appended
                 /\ UNCHANGED << pc, outcome >>
         /\ i' = i + 1
    /\ UNCHANGED << total_supply, value, accounts_with_owners, token_accounts,
                    owner_data, warnings, exception >>
    /\ UNCHANGED << cli_vars, perm_vars, export_vars >>

Next ==
    \/ get_token_supply
    \/ get_token_accounts_by_mint
    \/ get_token_largest_accounts
    \/ get_account_info
    \/ is_program_account

Spec == Init /\ [][Next]_vars

\* ------------------------------------------- the command-line program
\* The locals of analyze_token_holders and of the calls below it.
analysis_vars ==
    << total_supply, value, accounts_with_owners, token_accounts, owner_data,
       holders, i, last_lookup >>

\* cli_main with --mint (lines 458-553) or without (main, lines 353-436).
InitCli ==
    /\ mode \in {"cli", "interactive"}
    /\ pc = IF mode = "cli" THEN "get_slot" ELSE "input"
    /\ outcome = "running"
    /\ total_supply = 0
    /\ value = <<>>
    /\ accounts_with_owners = <<>>
    /\ token_accounts = <<>>
    /\ owner_data = <<>>
    /\ holders = <<>>
    /\ i = 1
    /\ calls = <<>>
    /\ last_lookup = [target |-> "", info |-> NoAnswer]
    /\ warnings = <<>>
    /\ exception = NoException
    /\ snapshot_info = NoSnapshot
    /\ exported = NoExport
    /\ displayed = <<>>
    /\ reported = <<>>
    /\ closed = 0
    /\ exit_path = ""
    /\ exit_status = EXIT_OK
    /\ permuted = <<>>
    /\ permuted_holders = <<>>
    /\ is_program = <<>>
    /\ request = NoRequest
    /\ csvfile = NoFile
    /\ filename = None
    /\ table_data = NoTable

\* main lines 358-369: the prompt and the two checks of the address.
input ==
    /\ pc = "input"
    /\ \E mint_address \in MintInputs :
         IF mint_address = MINT
         THEN /\ pc' = "get_token_supply"
              /\ UNCHANGED exit_path
         ELSE /\ pc' = Finally("returned early")
              /\ exit_path' = IF mint_address = "" THEN "mint required"
                              ELSE "invalid mint"
    /\ UNCHANGED << outcome, calls, warnings, exception, analysis_vars, mode,
                    snapshot_info, exported, displayed, reported, closed,
                    exit_status >>
    /\ UNCHANGED << perm_vars, export_vars >>

\* get_snapshot_info lines 50-53 and, when get_slot raises, 64-71.
get_slot ==
    /\ pc = "get_slot"
    /\ \E resp \in SlotAnswers :
         /\ calls' = Append(calls, Call("get_slot", "snapshot", "", resp.status))
         /\ IF resp.status = "raise"
            THEN /\ snapshot_info' = FallbackSnapshot
                 /\ warnings' = Append(warnings,
                                       Warning("Could not get block info", ""))
                 /\ pc' = "get_token_supply"
            ELSE /\ snapshot_info' = [NoSnapshot EXCEPT !.slot = resp.value]
                 /\ pc' = "get_block_time"
                 /\ UNCHANGED warnings
    /\ UNCHANGED << outcome, exception, analysis_vars, mode, exported,
                    displayed, reported, closed, exit_path, exit_status >>
    /\ UNCHANGED << perm_vars, export_vars >>

\* get_snapshot_info lines 55-63 and, when get_block_time raises, 64-71.
get_block_time ==
    /\ pc = "get_block_time"
    /\ \E resp \in BlockTimeAnswers :
         /\ calls' = Append(calls, Call("get_block_time", "snapshot", "",
                                        resp.status))
         /\ IF resp.status = "raise"
            THEN /\ snapshot_info' = FallbackSnapshot
                 /\ warnings' = Append(warnings,
                                       Warning("Could not get block info", ""))
            ELSE /\ snapshot_info' = SnapshotInfo(snapshot_info.slot, resp)
                 /\ UNCHANGED warnings
    /\ pc' = "get_token_supply"
    /\ UNCHANGED << outcome, exception, analysis_vars, mode, exported,
                    displayed, reported, closed, exit_path, exit_status >>
    /\ UNCHANGED << perm_vars, export_vars >>

\* The points where the coroutine waits for a remote call.
AwaitPoints ==
    { "get_slot", "get_block_time", "get_token_supply",
      "get_token_accounts_by_mint", "get_token_largest_accounts",
      "get_account_info", "is_program_account" }

\* The task is cancelled while it waits for a remote call: the exception is
\* raised at the await, the frames of the analysis are unwound with their
\* locals, and no except clause of analyze (line 548) or main (lines 431-434)
\* catches it.
cancel ==
    /\ mode # "library"
    /\ pc \in AwaitPoints
    /\ outcome' = "cancelled"
    /\ exit_path' = "cancelled"
    /\ pc' = Finally("cancelled")
    /\ total_supply' = 0
    /\ value' = <<>>
    /\ accounts_with_owners' = <<>>
    /\ token_accounts' = <<>>
    /\ owner_data' = <<>>
    /\ holders' = <<>>
    /\ i' = 1
    /\ last_lookup' = [target |-> "", info |-> NoAnswer]
    /\ UNCHANGED << calls, warnings, exception, mode, snapshot_info,
                    exported, displayed, reported, closed, exit_status >>
    /\ UNCHANGED << perm_vars, export_vars >>

\* analyze lines 467-549: what follows analyze_token_holders under --mint.
analyze ==
    /\ mode = "cli"
    /\ pc = "done"
    /\ \E args \in CliArgs :
       IF outcome = "returned"
       THEN /\ exported' = IF args.csv \/ args.csv_only
                           THEN ExportToCsv(holders, snapshot_info)
                           ELSE exported
            /\ displayed' = IF args.csv_only THEN displayed
                            ELSE DisplayHolders(holders, args.start)
            /\ exit_path' = IF args.csv_only THEN "csv only"
                            ELSE IF args.start # 0 /\ args.start - 1 >= Len(holders)
                            THEN "start exceeds holders"
                            ELSE "completed"
            /\ UNCHANGED reported
       ELSE /\ reported' = exception.message
            /\ exit_path' = "error"
            /\ UNCHANGED << exported, displayed >>
    /\ pc' = Finally(exit_path')
    /\ UNCHANGED << outcome, calls, warnings, exception, analysis_vars, mode,
                    snapshot_info, closed, exit_status >>
    /\ UNCHANGED << perm_vars, export_vars >>

\* main lines 372-434: what follows analyze_token_holders at the prompt.
main ==
    /\ mode = "interactive"
    /\ pc = "done"
    /\ IF outcome = "returned"
       THEN /\ displayed' = holders
            /\ exit_path' = IF holders = <<>> THEN "no holders" ELSE "completed"
            /\ UNCHANGED reported
       ELSE /\ reported' = exception.message
            /\ exit_path' = "error"
            /\ UNCHANGED displayed
    /\ pc' = Finally(exit_path')
    /\ UNCHANGED << outcome, calls, warnings, exception, analysis_vars, mode,
                    snapshot_info, exported, closed, exit_status >>
    /\ UNCHANGED << perm_vars, export_vars >>

\* lines 550-551 and 435-436: the finally clause, then the end of the process.
close ==
    /\ pc = "close"
    /\ closed' = closed + 1
    /\ calls' = Append(calls, Call("close", "finally", "", "ok"))
    /\ exit_status' = ExitStatus(exit_path)
    /\ pc' = "exit"
    /\ UNCHANGED << outcome, warnings, exception, analysis_vars, mode,
                    snapshot_info, exported, displayed, reported, exit_path >>
    /\ UNCHANGED << perm_vars, export_vars >>

NextCli ==
    \/ input
    \/ get_slot
    \/ get_block_time
    \/ get_token_supply
    \/ get_token_accounts_by_mint
    \/ get_token_largest_accounts
    \/ get_account_info
    \/ is_program_account
    \/ cancel
    \/ analyze
    \/ main
    \/ close

SpecCli == InitCli /\ [][NextCli]_vars

\* ------------------------------------- two listings of the same entries
\* lines 287-304: the Holder of every owner, given the classification answers.
HoldersOf(data, supply, answers) ==
    [k \in 1..Len(data) |-> MakeHolder(data[k], supply, answers[data[k].owner])]

\* lines 258-309: grouping, Holder construction and sort of one listing.
Rank(accounts, supply, answers) ==
    SortHolders(HoldersOf(GroupByOwner(accounts), supply, answers))

PermListings ==
    UNION {[1..n -> [owner : Wallets, amount : Amounts]] : n \in 1..MaxPermAccounts}

ResolvedListing(l) ==
    [k \in 1..Len(l) |->
        [account_address |-> AccountAddresses[k], owner |-> l[k].owner,
         amount |-> l[k].amount]]

\* Two calls of analyze_token_holders with the same supply and the same
\* classification answers, on listings that hold the same entries.
InitPerm ==
    /\ \E l \in PermListings : token_accounts = ResolvedListing(l)
    /\ permuted = token_accounts
    /\ total_supply \in 1..MaxSupply
    /\ is_program \in [Wallets -> BOOLEAN]
    /\ pc = "permute"
    /\ outcome = "running"
    /\ value = <<>>
    /\ accounts_with_owners = <<>>
    /\ owner_data = <<>>
    /\ holders = <<>>
    /\ permuted_holders = <<>>
    /\ i = 1
    /\ calls = <<>>
    /\ last_lookup = [target |-> "", info |-> NoAnswer]
    /\ warnings = <<>>
    /\ exception = NoException
    /\ mode = "library"
    /\ snapshot_info = NoSnapshot
    /\ exported = NoExport
    /\ displayed = <<>>
    /\ reported = <<>>
    /\ closed = 0
    /\ exit_path = ""
    /\ exit_status = EXIT_OK
    /\ request = NoRequest
    /\ csvfile = NoFile
    /\ filename = None
    /\ table_data = NoTable

\* The data source lists two neighbouring entries in the other order.
permute ==
    /\ pc = "permute"
    /\ \E k \in 1..(Len(permuted) - 1) :
         permuted' = [permuted EXCEPT ![k] = permuted[k + 1],
                                      ![k + 1] = permuted[k]]
    /\ UNCHANGED << pc, outcome, calls, warnings, exception, analysis_vars,
                    cli_vars, permuted_holders, is_program, export_vars >>

\* lines 258-309, once for each listing.
analyze_token_holders ==
    /\ pc = "permute"
    /\ owner_data' = GroupByOwner(token_accounts)
    /\ holders' = Rank(token_accounts, total_supply, is_program)
    /\ permuted_holders' = Rank(permuted, total_supply, is_program)
    /\ outcome' = "returned"
    /\ pc' = "ranked"
    /\ UNCHANGED << total_supply, value, accounts_with_owners, token_accounts,
                    i, last_lookup, calls, warnings, exception, cli_vars,
                    permuted, is_program, export_vars >>

NextPerm ==
    \/ permute
    \/ analyze_token_holders

SpecPerm == InitPerm /\ [][NextPerm]_vars

\* ------------------------------------ export_to_csv and the range display
\* The snapshots export_to_csv is given: the one get_snapshot_info builds
\* from SLOT and BLOCK_TIME (lines 57-63, 2024-01-02T03:04:05) and the one
\* it returns when the capture failed (lines 64-71, the local clock).
ExportSnapshots ==
    {[block_number |-> SLOT, timestamp |-> DateTime(2024, 1, 2, 3, 4, 5, 0),
      slot |-> SLOT],
     [block_number |-> 0, timestamp |-> DateTime(2025, 12, 31, 23, 59, 58, 120034),
      slot |-> 0]}

\* line 332: the reading of datetime.now() during the export.
EXPORT_TIME == DateTime(2026, 1, 2, 13, 14, 15, 678)

\* --csv-file: no name, and names with and without the extension.
Filenames ==
    {None,
     Some(<<>>),
     Some(<<"report">>),
     Some(<<"report">> \o CSV_SUFFIX),
     Some(<<"report", ".", "C", "S", "V">>),
     Some(<<"report">> \o CSV_SUFFIX \o <<".", "b", "a", "k">>),
     Some(<<"c", "s", "v">>),
     Some(CSV_SUFFIX)}

\* --start and --end: absent, or any integer.
RankOptions == {None} \cup {Some(n) : n \in (0 - MaxRank)..MaxRank}

ExportListings ==
    UNION {[1..n -> [owner : Wallets, amount : Amounts]] : n \in 0..MaxExportAccounts}

\* A Holder list as analyze_token_holders returns it.
InitExport ==
    /\ \E l \in ExportListings, supply \in 1..MaxExportSupply,
          answers \in [Wallets -> BOOLEAN] :
          /\ holders = Rank(ResolvedListing(l), supply, answers)
          /\ total_supply = supply
    /\ pc = "call"
    /\ outcome = "returned"
    /\ value = <<>>
    /\ accounts_with_owners = <<>>
    /\ token_accounts = <<>>
    /\ owner_data = <<>>
    /\ i = 1
    /\ calls = <<>>
    /\ last_lookup = [target |-> "", info |-> NoAnswer]
    /\ warnings = <<>>
    /\ exception = NoException
    /\ mode = "library"
    /\ snapshot_info = NoSnapshot
    /\ exported = NoExport
    /\ displayed = <<>>
    /\ reported = <<>>
    /\ closed = 0
    /\ exit_path = ""
    /\ exit_status = EXIT_OK
    /\ permuted = <<>>
    /\ permuted_holders = <<>>
    /\ is_program = <<>>
    /\ request = NoRequest
    /\ csvfile = NoFile
    /\ filename = None
    /\ table_data = NoTable

\* lines 311-350.
export_to_csv ==
    /\ pc = "call"
    /\ \E mint_address \in MintTexts, snapshot \in ExportSnapshots,
          name \in Filenames :
          /\ request' = [NoRequest EXCEPT !.mint_address = mint_address,
                                          !.snapshot_info = snapshot,
                                          !.filename = name]
          /\ csvfile' = [name |-> Filename(name, mint_address, snapshot),
                         lines |-> CsvLines(holders, mint_address, snapshot,
                                            EXPORT_TIME)]
          /\ filename' = Filename(name, mint_address, snapshot)
    /\ pc' = "exported"
    /\ UNCHANGED << outcome, calls, warnings, exception, analysis_vars,
                    cli_vars, perm_vars, table_data >>

\* cli_main.analyze, lines 487-531.
display_holders ==
    /\ pc = "call"
    /\ \E start \in RankOptions, end \in RankOptions :
          /\ request' = [NoRequest EXCEPT !.start = start, !.end = end]
          /\ table_data' = TableData(holders, start, end, LIMIT)
    /\ pc' = "displayed"
    /\ UNCHANGED << outcome, calls, warnings, exception, analysis_vars,
                    cli_vars, perm_vars, csvfile, filename >>

NextExport ==
    \/ export_to_csv
    \/ display_holders

SpecExport == InitExport /\ [][NextExport]_vars

\* ==================================================================
\* Properties
\* ==================================================================
Returned == pc = "done" /\ outcome = "returned"

Indices(seq) == 1..Len(seq)

RECURSIVE SumPositive(_)
SumPositive(accounts) ==
    IF accounts = <<>> THEN 0
    ELSE (IF Head(accounts).amount > 0 THEN Head(accounts).amount ELSE 0)
         + SumPositive(Tail(accounts))

PositiveOf(accounts, owner) ==
    SelectSeq(accounts, LAMBDA a : a.owner = owner /\ a.amount > 0)

RECURSIVE SumBalances(_)
SumBalances(hs) ==
    IF hs = <<>> THEN 0 ELSE Head(hs).balance + SumBalances(Tail(hs))

PositiveOwners(accounts) ==
    {accounts[k].owner : k \in {j \in Indices(accounts) : accounts[j].amount > 0}}

HolderOf(owner) == CHOOSE h \in {holders[k] : k \in Indices(holders)} : h.owner = owner

\* C1: the balances of the returned Holders sum exactly to the sum of the
\* positive raw amounts, and each Holder's balance is the exact sum of the
\* positive amounts of the entries of its owner.
C1_BalancesExact ==
    Returned =>
        /\ SumBalances(holders) = SumPositive(token_accounts)
        /\ \A k \in Indices(holders) :
              holders[k].balance
                  = SumPositive(PositiveOf(token_accounts, holders[k].owner))

C1_Witness ==
    /\ Returned
    /\ Len(holders) >= 2
    /\ \E k \in Indices(owner_data) : Len(owner_data[k].account_addresses) >= 2

\* C2: the returned list holds exactly one Holder per distinct owner that has
\* a positive-balance entry; several entries of one owner give one Holder.
C2_OneHolderPerOwner ==
    Returned =>
        /\ \A j, k \in Indices(holders) :
              j # k => holders[j].owner # holders[k].owner
        /\ {holders[k].owner : k \in Indices(holders)}
              = PositiveOwners(token_accounts)

C2_Witness ==
    /\ Returned
    /\ Len(holders) = 1
    /\ Len(PositiveOf(token_accounts, holders[1].owner)) >= 2

\* C3: when the supply obtained is 0 the run ends with the zero-supply error
\* and no listing call and no account lookup has been or is ever issued.
C3_ZeroSupplyFailsFast ==
    (/\ pc # "get_token_supply"
     /\ calls[1].result # "raise"
     /\ total_supply = 0)
    => /\ pc = "done"
       /\ outcome = "ZeroSupplyError"
       /\ \A k \in Indices(calls) : calls[k].op = "get_token_supply"

C3_Witness ==
    /\ outcome = "ZeroSupplyError"
    /\ calls = <<Call("get_token_supply", "supply", MINT, "ok")>>

\* C4: the returned Holder list is non-increasing in percentage.
C4_NonIncreasing ==
    Returned =>
        \A k \in 1..(Len(holders) - 1) :
            ~PctLess(holders[k].percentage, holders[k + 1].percentage)

C4_Witness ==
    /\ Returned
    /\ Len(owner_data) >= 2
    /\ owner_data[1].total_balance < owner_data[2].total_balance
    /\ holders[1].owner = owner_data[2].owner

\* Ascending order of the address strings of the model (byte order).
AddressOrder ==
    << SYSTEM_PROGRAM, UNLISTED_PROGRAM, TOKEN_PROGRAM, UNKNOWN,
       "walletA", "walletB" >>

AddressIndex(a) == CHOOSE k \in 1..Len(AddressOrder) : AddressOrder[k] = a

AddressLess(a, b) == AddressIndex(a) < AddressIndex(b)

PctEqual(p, q) == p.num * q.den = q.num * p.den

\* C5 as stated: Holders of equal percentage are ordered by owner address
\* ascending.
C5_TiesByOwnerAddress ==
    Returned =>
        \A j, k \in Indices(holders) :
            (j < k /\ PctEqual(holders[j].percentage, holders[k].percentage))
                => AddressLess(holders[j].owner, holders[k].owner)

FirstPositive(owner) ==
    CHOOSE k \in Indices(token_accounts) :
        /\ token_accounts[k].owner = owner /\ token_accounts[k].amount > 0
        /\ \A j \in 1..(k - 1) :
              ~(token_accounts[j].owner = owner /\ token_accounts[j].amount > 0)

\* C5 amended: Holders of equal percentage keep the order in which their
\* owners first appear with a positive balance in the listing.
C5_TiesKeepListingOrder ==
    Returned =>
        \A j, k \in Indices(holders) :
            (j < k /\ PctEqual(holders[j].percentage, holders[k].percentage))
                => FirstPositive(holders[j].owner) < FirstPositive(holders[k].owner)

C5_Witness ==
    /\ Returned
    /\ \E j, k \in Indices(holders) :
          /\ j < k
          /\ PctEqual(holders[j].percentage, holders[k].percentage)
          /\ AddressLess(holders[k].owner, holders[j].owner)

NonPositiveAddresses ==
    {token_accounts[k].account_address :
        k \in {j \in Indices(token_accounts) : token_accounts[j].amount <= 0}}

\* C6: entries with amount <= 0 are left out before grouping: no Holder has a
\* balance <= 0 and such an account is neither the primary account nor a
\* constituent account of any owner, nor does its owner get a Holder from it.
C6_NonPositiveExcluded ==
    Returned =>
        /\ \A k \in Indices(holders) :
              /\ holders[k].balance > 0
              /\ holders[k].address \notin NonPositiveAddresses
              /\ holders[k].owner \in PositiveOwners(token_accounts)
        /\ \A k \in Indices(owner_data) :
              /\ owner_data[k].primary_account \notin NonPositiveAddresses
              /\ \A n \in Indices(owner_data[k].account_addresses) :
                    owner_data[k].account_addresses[n] \notin NonPositiveAddresses

C6_Witness ==
    /\ Returned
    /\ Len(holders) >= 1
    /\ \E k \in Indices(token_accounts) :
          /\ token_accounts[k].amount <= 0
          /\ token_accounts[k].owner \notin PositiveOwners(token_accounts)

Classified == last_lookup.target # ""

\* C7: for an owner whose lookup returns an account: executable gives
\* "program" whatever the controlling program; otherwise a controlling program
\* of the allow-list gives "program"; otherwise "user".
C7_DecisionTable ==
    (Classified /\ last_lookup.info.status = "ok") =>
        LET info == last_lookup.info
            type == HolderOf(last_lookup.target).account_type
        IN /\ info.executable => type = "program"
           /\ (~info.executable /\ info.owner \in program_owners) => type = "program"
           /\ (~info.executable /\ info.owner \notin program_owners) => type = "user"

C7_Witness ==
    /\ Classified
    /\ last_lookup.info.status = "ok"
    /\ last_lookup.info.executable
    /\ last_lookup.info.owner = SYSTEM_PROGRAM
    /\ HolderOf(last_lookup.target).account_type = "program"

FailedClassifications ==
    {k \in Indices(calls) :
        calls[k].site = "classify" /\ calls[k].result \in {"raise", "none"}}

\* C8: an owner whose classification lookup raises or returns no account is
\* classified "user", the run goes on, and every owner still gets a Holder.
C8_LookupFailureDefaultsToUser ==
    /\ (Classified /\ last_lookup.info.status \in {"raise", "none", "notissued"})
          => HolderOf(last_lookup.target).account_type = "user"
    /\ FailedClassifications # {} => outcome \in {"running", "returned"}
    /\ (pc = "done" /\ FailedClassifications # {}) =>
          /\ outcome = "returned"
          /\ Len(holders) = Len(owner_data)
          /\ \A k \in FailedClassifications : HolderOf(calls[k].target).account_type = "user"

C8_Witness ==
    /\ Returned
    /\ Len(holders) >= 2
    /\ \E k \in FailedClassifications :
          /\ calls[k].result = "raise"
          /\ k < Len(calls)

ClassifyCalls == {k \in Indices(calls) : calls[k].site = "classify"}

\* C9: at most one classification lookup is issued per distinct owner,
\* whatever the number of token accounts the owner holds.
C9_OneLookupPerOwner ==
    /\ \A j, k \in ClassifyCalls : j # k => calls[j].target # calls[k].target
    /\ Cardinality(ClassifyCalls) <= Cardinality(PositiveOwners(token_accounts))

C9_Witness ==
    /\ Returned
    /\ Cardinality(ClassifyCalls) = 1
    /\ Len(PositiveOf(token_accounts, calls[Len(calls)].target)) >= 2

CallsOf(op) == {k \in Indices(calls) : calls[k].op = op}

Raised(op) == \E k \in CallsOf(op) : calls[k].result = "raise"

AccountListFetchErrors ==
    { "AccountListFetchError.RateLimited", "AccountListFetchError.NotFound",
      "AccountListFetchError.Other" }

\* C10: the detailed strategy is tried first; when it raises, the summary
\* strategy is tried; when both raise, an account-list fetch error reaches
\* the caller and no Holder list is produced.
C10_FallbackOrder ==
    /\ \A k \in CallsOf("get_token_largest_accounts") :
          \E j \in CallsOf("get_token_accounts_by_mint") : j < k
    /\ (Raised("get_token_accounts_by_mint") /\ pc # "get_token_largest_accounts")
          => CallsOf("get_token_largest_accounts") # {}
    /\ (Raised("get_token_accounts_by_mint") /\ Raised("get_token_largest_accounts"))
          => /\ pc = "done"
             /\ outcome \in AccountListFetchErrors
             /\ holders = <<>>
             /\ token_accounts = <<>>

C10_Witness ==
    /\ Raised("get_token_accounts_by_mint")
    /\ Raised("get_token_largest_accounts")
    /\ outcome = "AccountListFetchError.RateLimited"

\* The listing step has returned to analyze_token_holders (line 250 is past).
ListingReturned ==
    \/ pc = "is_program_account"
    \/ pc = "done" /\ outcome \in {"returned", "NoAccountsError"}

ResolvedAddresses ==
    {token_accounts[k].account_address : k \in Indices(token_accounts)}

WarnedAbout(about) == \E k \in Indices(warnings) : warnings[k].about = about

\* C11: a failure resolving one raw account never aborts the run and never
\* makes the entry disappear without trace: once the listing step has
\* returned, every raw account of the listing is in the resolved sequence
\* or a warning names it, and only a failed listing call aborts the run.
C11_EveryRawAccountTraced ==
    /\ ListingReturned =>
          \A k \in Indices(value) :
              \/ value[k].account_address \in ResolvedAddresses
              \/ WarnedAbout(value[k].account_address)
    /\ outcome \in AccountListFetchErrors => Raised("get_token_largest_accounts")

SummaryPath == CallsOf("get_token_largest_accounts") # {}

\* C12: every recovered per-account failure leaves a warning: an owner
\* resolution that fell back to "Unknown" or to the controlling program,
\* and a classification lookup that failed and defaulted to 'user'.
C12_RecoveredFailuresWarn ==
    /\ SummaryPath =>
          \A k \in Indices(accounts_with_owners) :
              accounts_with_owners[k].owner \in {UNKNOWN, TOKEN_PROGRAM}
                  => WarnedAbout(accounts_with_owners[k].account_address)
    /\ (Classified /\ last_lookup.info.status \in {"raise", "none", "notissued"})
          => WarnedAbout(last_lookup.target)

FatalFetchErrors == {"SupplyFetchError"} \cup AccountListFetchErrors

FailedCall ==
    IF outcome = "SupplyFetchError" THEN "get_token_supply"
    ELSE "get_token_largest_accounts"

\* C13 as stated: a failure of the supply fetch or of the account listing
\* is fatal, the failed call is issued exactly once, and the error reaches
\* the caller unmodified (its message is the message of the remote error).
C13_FatalUnmodified ==
    outcome \in FatalFetchErrors =>
        /\ pc = "done"
        /\ holders = <<>>
        /\ Cardinality(CallsOf(FailedCall)) = 1
        /\ exception.message = <<exception.context>>

\* C13 (amended): a failure of the supply fetch, or of the summary listing
\* call reached after the detailed strategy gave no list, is fatal: no
\* Holder list is produced, the failed call is issued exactly once and is
\* the last call made, and the caller receives a new exception that wraps
\* the remote error: "Failed to get token supply: <error>" for the supply,
\* and for the listing the rate-limit, not-found or unable-to-fetch message
\* chosen from the text of the remote error.
C13_FatalWrapped ==
    /\ outcome = "SupplyFetchError" =>
          /\ pc = "done"
          /\ holders = <<>>
          /\ Len(calls) = 1
          /\ calls[1].op = "get_token_supply" /\ calls[1].result = "raise"
          /\ exception.context # ""
          /\ exception.message = <<"Failed to get token supply: ", exception.context>>
    /\ outcome \in AccountListFetchErrors =>
          /\ pc = "done"
          /\ holders = <<>>
          /\ Cardinality(CallsOf("get_token_largest_accounts")) = 1
          /\ Cardinality(CallsOf("get_token_accounts_by_mint")) = 1
          /\ calls[Len(calls)].op = "get_token_largest_accounts"
          /\ calls[Len(calls)].result = "raise"
          /\ exception = FetchException(exception.context)
          /\ exception.message # <<exception.context>>
    /\ (calls # <<>> /\ calls[Len(calls)].result = "raise"
          /\ calls[Len(calls)].op = "get_token_supply")
          => outcome = "SupplyFetchError"
    /\ (calls # <<>> /\ calls[Len(calls)].result = "raise"
          /\ calls[Len(calls)].op = "get_token_largest_accounts")
          => outcome \in AccountListFetchErrors

C13_Witness ==
    /\ outcome = "SupplyFetchError"
    /\ exception.message = <<"Failed to get token supply: ", "Network error">>
    /\ calls = <<Call("get_token_supply", "supply", MINT, "raise")>>

\* C19: for every Holder returned 0 < percentage <= 100, and every Holder
\* balance and the sum of all Holder balances is at most the total supply.
C19_PercentagesWithinSupply ==
    Returned =>
        /\ \A k \in Indices(holders) :
              /\ 0 < holders[k].percentage.num
              /\ holders[k].percentage.num <= 100 * holders[k].percentage.den
              /\ holders[k].balance <= total_supply
        /\ SumBalances(holders) <= total_supply

LastCall == calls[Len(calls)]

\* C14: the client's close is called on every exit path of an invocation:
\* once the try block is left (normal completion, early return, error or
\* cancellation between two remote calls) the next step is the close, the
\* process ends only after it, and it is called exactly once.
C14_ClosedOnEveryExit ==
    /\ exit_path # "" => pc \in {"close", "exit"}
    /\ pc = "close" => closed = 0
    /\ pc = "exit" =>
          /\ closed = 1
          /\ exit_path # ""
          /\ LastCall.op = "close"
          /\ Cardinality(CallsOf("close")) = 1
    /\ pc \notin {"close", "exit"} => closed = 0 /\ CallsOf("close") = {}

C14_Witness ==
    /\ pc = "exit"
    /\ exit_path = "cancelled"
    /\ closed = 1
    /\ Len(calls) >= 4
    /\ calls[Len(calls) - 1].op = "get_token_accounts_by_mint"

\* C15: whenever an invocation ends in an unrecoverable error (supply fetch
\* failure, zero supply, account-listing failure, no accounts) the error is
\* reported and the process ends with a non-zero exit status.
C15_ErrorExitsNonZero ==
    (pc = "exit" /\ outcome \notin {"running", "returned", "cancelled"}) =>
        /\ reported = exception.message
        /\ reported # <<>>
        /\ exit_status # EXIT_OK

HolderOwners(hs) == {hs[k].owner : k \in Indices(hs)}

\* C16: a run that is cancelled or fails between two remote calls never
\* yields a partial Holder list reported as complete: analyze_token_holders
\* ends either with the list covering every owner with a positive balance
\* in the listing, or with an error and no list; what is exported is that
\* whole list, what is displayed is taken from it, and a cancelled or
\* failed invocation exports and displays nothing.
C16_NoPartialList ==
    /\ outcome = "returned" =>
          /\ HolderOwners(holders) = PositiveOwners(token_accounts)
          /\ Len(holders) = Len(owner_data)
    /\ (outcome \notin {"running", "returned"}) =>
          /\ holders = <<>>
          /\ ~exported.written
          /\ displayed = <<>>
    /\ outcome = "running" => ~exported.written /\ displayed = <<>>
    /\ exported.written => exported.holders = holders
    /\ \A k \in Indices(displayed) :
          \E j \in Indices(holders) : displayed[k] = holders[j]

\* Cancelled while the second owner's classification was awaited.
C16_Witness ==
    /\ outcome = "cancelled"
    /\ pc = "exit"
    /\ Cardinality(ClassifyCalls) = 1
    /\ LastCall.op = "close"
    /\ calls[Len(calls) - 1].site = "classify"
    /\ holders = <<>>

DataCalls ==
    CallsOf("get_token_supply") \cup CallsOf("get_token_accounts_by_mint")
    \cup CallsOf("get_token_largest_accounts") \cup CallsOf("get_account_info")

SnapshotCalls == CallsOf("get_slot") \cup CallsOf("get_block_time")

\* C17 as stated: in every analysis invocation the snapshot is captured
\* exactly once, at the start, before the supply fetch and before any
\* listing, and that snapshot is the one written to the exported file.
C17_SnapshotInEveryInvocation ==
    /\ DataCalls # {} =>
          /\ Cardinality(CallsOf("get_slot")) = 1
          /\ calls[1].op = "get_slot"
          /\ \A k \in SnapshotCalls : \A j \in DataCalls : k < j
    /\ exported.written => exported.snapshot = snapshot_info

\* get_snapshot_info has returned.
SnapshotCaptured ==
    /\ CallsOf("get_slot") # {}
    /\ pc \notin {"get_slot", "get_block_time"}
    /\ calls[1].result = "raise" \/ CallsOf("get_block_time") # {}

\* The snapshot that the answers to the two capture calls determine.
CapturedFrom(log) ==
    IF log[1].result = "raise" \/ log[2].result = "raise" THEN FallbackSnapshot
    ELSE SnapshotInfo(SLOT, [status |-> log[2].result,
                             value |-> IF log[2].result = "ok" THEN BLOCK_TIME
                                       ELSE 0])

\* C17 (amended): in every invocation with --mint the snapshot is captured
\* exactly once, at the start: get_slot is the first remote call, it and
\* get_block_time are each issued at most once, the capture has returned
\* before the supply fetch and every listing call, the captured snapshot is
\* not changed afterwards, and it is the one written to the exported file.  The interactive
\* invocation captures no snapshot and exports no file.
C17_SnapshotFirstUnderMint ==
    /\ (mode = "cli" /\ SnapshotCalls \cup DataCalls # {}) =>
          /\ calls[1].op = "get_slot"
          /\ CallsOf("get_slot") = {1}
          /\ CallsOf("get_block_time") \subseteq {2}
          /\ \A k \in SnapshotCalls : \A j \in DataCalls : k < j
    /\ (mode = "cli" /\ DataCalls # {}) => SnapshotCaptured
    /\ (mode = "cli" /\ SnapshotCaptured) => snapshot_info = CapturedFrom(calls)
    /\ (mode = "cli" /\ exported.written) =>
          /\ SnapshotCaptured
          /\ exported.snapshot = snapshot_info
    /\ mode = "interactive" =>
          /\ SnapshotCalls = {}
          /\ snapshot_info = NoSnapshot
          /\ ~exported.written

C17_Witness ==
    /\ mode = "cli"
    /\ pc = "exit"
    /\ exported.written
    /\ exported.snapshot.slot = SLOT
    /\ exported.snapshot.timestamp = FromTimestamp(BLOCK_TIME)
    /\ Len(exported.holders) = 2

\* C18: the snapshot timestamp comes from the block time when the ledger
\* returns one and from the local clock otherwise, and the snapshot carries
\* an 'approximate' flag that is set in exactly the cases where the block
\* time was unavailable.
C18_ApproximateFlag ==
    (mode = "cli" /\ SnapshotCaptured) =>
        /\ snapshot_info.timestamp.clock
              = (IF Len(calls) >= 2 /\ calls[2].op = "get_block_time"
                    /\ calls[2].result = "ok"
                 THEN "ledger" ELSE "local")
        /\ "approximate" \in DOMAIN snapshot_info
        /\ snapshot_info.approximate = (snapshot_info.timestamp.clock = "local")

\* What C20 compares of a Holder: owner, balance, percentage, account type.
Ranked(hs) ==
    [k \in 1..Len(hs) |->
        [owner |-> hs[k].owner, balance |-> hs[k].balance,
         percentage |-> hs[k].percentage, account_type |-> hs[k].account_type]]

FirstPositiveIn(accounts, owner) ==
    CHOOSE k \in Indices(accounts) :
        /\ accounts[k].owner = owner /\ accounts[k].amount > 0
        /\ \A j \in 1..(k - 1) :
              ~(accounts[j].owner = owner /\ accounts[j].amount > 0)

PositionOf(hs, owner) == CHOOSE k \in Indices(hs) : hs[k].owner = owner

TiesInListingOrder(hs, accounts) ==
    \A j, k \in Indices(hs) :
        (j < k /\ PctEqual(hs[j].percentage, hs[k].percentage))
            => FirstPositiveIn(accounts, hs[j].owner)
                   < FirstPositiveIn(accounts, hs[k].owner)

\* C20 as stated: for two listings that are permutations of each other, with
\* the same supply and the same classification answers, the same ranked
\* sequence of (owner, balance, percentage, account type) is returned.
C20_SameRankedSequence ==
    pc = "ranked" => Ranked(holders) = Ranked(permuted_holders)

\* C20 (amended): the two runs return the same set of (owner, balance,
\* percentage, account type) and the same percentage at every rank, so
\* Holders with different percentages are in the same order; Holders with
\* equal percentages are in the order in which their owners first appear
\* with a positive balance in the listing of that run.
C20_SameUpToTies ==
    pc = "ranked" =>
        /\ Len(holders) = Len(permuted_holders)
        /\ {Ranked(holders)[k] : k \in Indices(holders)}
              = {Ranked(permuted_holders)[k] : k \in Indices(permuted_holders)}
        /\ \A k \in Indices(holders) :
              PctEqual(holders[k].percentage, permuted_holders[k].percentage)
        /\ \A j, k \in Indices(holders) :
              (j < k /\ ~PctEqual(holders[j].percentage, holders[k].percentage))
                  => PositionOf(permuted_holders, holders[j].owner)
                         < PositionOf(permuted_holders, holders[k].owner)
        /\ TiesInListingOrder(holders, token_accounts)
        /\ TiesInListingOrder(permuted_holders, permuted)

C20_Witness ==
    /\ pc = "ranked"
    /\ permuted # token_accounts
    /\ Len(holders) = 2
    /\ Ranked(holders) # Ranked(permuted_holders)

UnresolvedLookups ==
    {k \in Indices(calls) :
        calls[k].site = "resolve" /\ calls[k].result \in {"raise", "none"}}

ResolvedAs(address) ==
    CHOOSE a \in {accounts_with_owners[k] : k \in Indices(accounts_with_owners)} :
        a.account_address = address

UnknownAccounts == PositiveOf(token_accounts, UNKNOWN)

DetailedKept ==
    /\ CallsOf("get_token_accounts_by_mint") # {}
    /\ CallsOf("get_token_largest_accounts") = {}
    /\ pc # "get_token_largest_accounts"

\* C29 as stated: the summary strategy is entered if and only if the
\* detailed call raised or returned an empty value; when it returned at
\* least one raw entry the summary strategy and its lookups are never issued.
C29_SummaryIffRaisedOrEmpty ==
    /\ pc = "get_token_largest_accounts" =>
          Raised("get_token_accounts_by_mint") \/ value = <<>>
    /\ DetailedKept =>
          ~Raised("get_token_accounts_by_mint") /\ value # <<>>
    /\ \A k \in Indices(calls) :
          calls[k].site = "resolve" => CallsOf("get_token_largest_accounts") # {}

\* C29 (amended): the summary strategy is entered if and only if the
\* detailed call raised, returned an empty value, or reading one of its raw
\* entries raised; when it returned at least one raw entry and reading none
\* of them raised, the summary call and its per-account lookups are never
\* issued, even if none of those entries carried parsed info.
C29_SummaryIffDetailedFailed ==
    /\ pc = "get_token_largest_accounts" =>
          \/ Raised("get_token_accounts_by_mint")
          \/ value = <<>>
          \/ \E k \in Indices(value) : value[k].kind = "malformed"
    /\ DetailedKept =>
          /\ ~Raised("get_token_accounts_by_mint")
          /\ value # <<>>
          /\ \A k \in Indices(value) : value[k].kind \in {"parsed", "noinfo"}
          /\ \A k \in Indices(calls) : calls[k].site # "resolve"
    /\ \A k \in Indices(calls) :
          calls[k].site = "resolve" => CallsOf("get_token_largest_accounts") # {}
    /\ Cardinality(CallsOf("get_token_largest_accounts")) <= 1

C29_Witness ==
    /\ pc = "done"
    /\ outcome = "NoAccountsError"
    /\ DetailedKept
    /\ Len(value) >= 2
    /\ \A k \in Indices(value) : value[k].kind = "noinfo"

\* ---- export_to_csv: reading the file back
Exported == pc = "exported"

IsDigit(c) == \E d \in 0..9 : DIGITS[d + 1] = c

DigitValue(c) == CHOOSE d \in 0..9 : DIGITS[d + 1] = c

IsNumber(text) == text # <<>> /\ \A k \in 1..Len(text) : IsDigit(text[k])

\* int(text) of a text of digits.
RECURSIVE ParseNat(_)
ParseNat(text) ==
    IF text = <<>> THEN 0
    ELSE 10 * ParseNat(SubSeq(text, 1, Len(text) - 1)) + DigitValue(text[Len(text)])

\* The position of the first sep in text, or 0.
RECURSIVE IndexFrom(_, _, _)
IndexFrom(text, sep, k) ==
    IF k > Len(text) THEN 0
    ELSE IF text[k] = sep THEN k
    ELSE IndexFrom(text, sep, k + 1)

FirstIndex(text, sep) == IndexFrom(text, sep, 1)

\* csv.reader on one line none of whose fields is quoted.
RECURSIVE SplitLine(_)
SplitLine(line) ==
    IF line = <<>> THEN <<>>
    ELSE LET at == FirstIndex(line, ",") IN
         IF at = 0 THEN <<line>>
         ELSE <<SubSeq(line, 1, at - 1)>>
                 \o (IF at = Len(line) THEN << <<>> >>
                     ELSE SplitLine(SubSeq(line, at + 1, Len(line))))

IsComment(line) == line # <<>> /\ line[1] = "#"

IsContent(line) == line # <<>> /\ line[1] # "#"

\* The lines that are left after the '#'-lines and the blank lines: the
\* header row and the data rows.
ContentLines == SelectSeq(csvfile.lines, IsContent)

RECURSIVE SplitLines(_)
SplitLines(lines) ==
    IF lines = <<>> THEN <<>>
    ELSE <<SplitLine(Head(lines))>> \o SplitLines(Tail(lines))

\* The fields of the data rows: the content lines after the header row.
DataFields ==
    LET content == ContentLines
    IN  IF content = <<>> THEN <<>> ELSE SplitLines(Tail(content))

\* A text of the form <digits>.<digits> with exactly n digits after the point.
IsDecimal(text, n) ==
    /\ Len(text) >= n + 2
    /\ text[Len(text) - n] = "."
    /\ IsNumber(SubSeq(text, 1, Len(text) - n - 1))
    /\ IsNumber(SubSeq(text, Len(text) - n + 1, Len(text)))

\* float(text) of such a text, as a fraction.
ParseDecimal(text, n) ==
    [num |-> ParseNat(SubSeq(text, 1, Len(text) - n - 1)) * (10 ^ n)
                + ParseNat(SubSeq(text, Len(text) - n + 1, Len(text))),
     den |-> 10 ^ n]

Abs(x) == IF x < 0 THEN 0 - x ELSE x

\* |p - q| <= 1 / (scale * 10^6), for fractions p and q.
PctWithin(p, q, scale) ==
    scale * 1000000 * Abs(p.num * q.den - q.num * p.den) <= p.den * q.den

\* C22: export_to_csv writes exactly one data row per Holder, in the order
\* of the list it is given; the i-th row carries the rank i, the Holder's
\* primary account address, its owner address, its balance as an integer,
\* its percentage rounded to exactly 6 decimal digits and its account type
\* unchanged ('user' or 'program').
C22_OneRowPerHolder ==
    Exported =>
        /\ Len(DataFields) = Len(holders)
        /\ \A k \in Indices(holders) :
              LET row == DataFields[k] IN
              /\ Len(row) = 6
              /\ IsNumber(row[1]) /\ ParseNat(row[1]) = k
              /\ row[2] = <<holders[k].address>>
              /\ row[3] = <<holders[k].owner>>
              /\ IsNumber(row[4]) /\ ParseNat(row[4]) = holders[k].balance
              /\ IsDecimal(row[5], 6)
              /\ PctWithin(ParseDecimal(row[5], 6), holders[k].percentage, 2)
              /\ row[6] = <<holders[k].account_type>>
              /\ holders[k].account_type \in {"user", "program"}

C22_Witness ==
    /\ Exported
    /\ Len(holders) = 2
    /\ Len(DataFields) = 2
    /\ holders[1].account_type # holders[2].account_type
    /\ DataFields[2][5] = <<"3", "3", ".", "3", "3", "3", "3", "3", "3">>
    /\ DataFields[1][5] = <<"6", "6", ".", "6", "6", "6", "6", "6", "7">>

\* The number of '#'-lines the file starts with.
LeadingComments ==
    IF \E k \in 1..Len(csvfile.lines) : ~IsComment(csvfile.lines[k])
    THEN (CHOOSE k \in 1..Len(csvfile.lines) :
             /\ ~IsComment(csvfile.lines[k])
             /\ \A j \in 1..(k - 1) : IsComment(csvfile.lines[j])) - 1
    ELSE Len(csvfile.lines)

MetadataLine(k, label, text) ==
    /\ k <= Len(csvfile.lines)
    /\ SplitLine(csvfile.lines[k]) = << <<"#", label>>, text >>

\* The six metadata lines, the first of them being line number first: the
\* mint address, the snapshot's block number, slot and time, the time of
\* the export and the number of holders, which is the number of data rows.
MetadataFrom(first) ==
    /\ MetadataLine(first, " Mint Address:", request.mint_address)
    /\ MetadataLine(first + 1, " Snapshot Block:",
                    Str(request.snapshot_info.block_number))
    /\ MetadataLine(first + 2, " Snapshot Slot:", Str(request.snapshot_info.slot))
    /\ MetadataLine(first + 3, " Snapshot Time:",
                    IsoFormat(request.snapshot_info.timestamp))
    /\ MetadataLine(first + 4, " Export Time:", IsoFormat(EXPORT_TIME))
    /\ MetadataLine(first + 5, " Total Holders:", Str(Len(DataFields)))
    /\ Len(DataFields) = Len(holders)

HeaderLine ==
    <<"Rank", ",", "Token_Account", ",", "Owner_Address", ",", "Balance", ",",
      "Percentage", ",", "Account_Type">>

\* After the '#'-lines: one blank line, the header row, and no other blank
\* line in the file.
BlankThenHeader(after) ==
    /\ Len(csvfile.lines) >= after + 2
    /\ csvfile.lines[after + 1] = <<>>
    /\ csvfile.lines[after + 2] = HeaderLine
    /\ \A k \in 1..Len(csvfile.lines) : csvfile.lines[k] = <<>> => k = after + 1

\* C23 as stated: the file starts with exactly one '#'-line per field, in
\* the order mint address, snapshot block number, snapshot slot, snapshot
\* time, export time, total holder count, followed by exactly one blank
\* line and the header row.
C23_OneLinePerField ==
    Exported =>
        /\ LeadingComments = 6
        /\ MetadataFrom(1)
        /\ BlankThenHeader(6)

\* C23: the file starts with the title line '# Token Holder Analysis
\* Export'; the six '#'-lines of the fields follow it in the order mint
\* address, snapshot block number, snapshot slot, snapshot time, export
\* time, total holder count (the number of data rows); then comes exactly
\* one blank line and then the header row.
C23_TitleThenOneLinePerField ==
    Exported =>
        /\ LeadingComments = 7
        /\ csvfile.lines[1] = <<"#", " Token Holder Analysis Export">>
        /\ MetadataFrom(2)
        /\ BlankThenHeader(7)
        /\ \A k \in 1..Len(csvfile.lines) : IsComment(csvfile.lines[k]) => k <= 7

C23_Witness ==
    /\ Exported
    /\ Len(holders) = 2
    /\ request.mint_address = MINT_TEXT
    /\ csvfile.lines[5]
          = <<"#", " Snapshot Time:", ",", "2", "0", "2", "4", "-", "0", "1",
              "-", "0", "2", "T", "0", "3", ":", "0", "4", ":", "0", "5">>
    /\ csvfile.lines[7] = <<"#", " Total Holders:", ",", "2">>
    /\ Len(csvfile.lines) = 11

\* ---- export_to_csv: the name of the file
HasCsvSuffix(text) ==
    /\ Len(text) >= 4
    /\ text[Len(text) - 3] = "." /\ text[Len(text) - 2] = "c"
    /\ text[Len(text) - 1] = "s" /\ text[Len(text)] = "v"

\* text is <first 8 characters of the mint>_<YYYYMMDD>_<HHMMSS>.csv for the
\* mint and the snapshot time of the call.
IsMintAndStamp(text) ==
    LET t == request.snapshot_info.timestamp IN
    /\ Len(text) = 8 + 1 + 8 + 1 + 6 + 4
    /\ SubSeq(text, 1, 8) = SubSeq(request.mint_address, 1, 8)
    /\ text[9] = "_"
    /\ IsNumber(SubSeq(text, 10, 17))
    /\ ParseNat(SubSeq(text, 10, 17)) = t.year * 10000 + t.month * 100 + t.day
    /\ text[18] = "_"
    /\ IsNumber(SubSeq(text, 19, 24))
    /\ ParseNat(SubSeq(text, 19, 24)) = t.hour * 10000 + t.minute * 100 + t.second
    /\ SubSeq(text, 25, 28) = <<".", "c", "s", "v">>

\* C24 as stated: without a filename the file name is exactly the first 8
\* characters of the mint address, an underscore, the snapshot timestamp
\* as YYYYMMDD_HHMMSS and the suffix .csv.
C24_DefaultNameMintAndStamp ==
    (Exported /\ request.filename = None) => IsMintAndStamp(csvfile.name)

\* C24: without a filename the file name is the prefix token_holders_
\* followed by the first 8 characters of the mint address, an underscore,
\* the snapshot timestamp as YYYYMMDD_HHMMSS and the suffix .csv; nothing
\* but the mint and the snapshot timestamp enters it.
C24_DefaultNamePrefixed ==
    (Exported /\ request.filename = None) =>
        /\ csvfile.name # <<>>
        /\ csvfile.name[1] = "token_holders_"
        /\ IsMintAndStamp(Tail(csvfile.name))
        /\ filename = csvfile.name

C24_Witness ==
    /\ Exported
    /\ request.filename = None
    /\ request.mint_address = MINT_TEXT
    /\ holders # <<>>
    /\ csvfile.name
          = <<"token_holders_", "E", "P", "j", "F", "W", "d", "d", "5", "_",
              "2", "0", "2", "4", "0", "1", "0", "2", "_",
              "0", "3", "0", "4", "0", "5", ".", "c", "s", "v">>

\* C25: with a filename supplied (a non-empty name), a name that lacks the
\* .csv suffix gets .csv appended and a name that ends in .csv is used
\* unchanged, so the rule applied to its own result changes nothing; the
\* name returned is the name of the file written.
C25_CsvSuffixOnce ==
    (Exported /\ ~NoName(request.filename)) =>
        LET supplied == request.filename[1] IN
        /\ HasCsvSuffix(supplied) => csvfile.name = supplied
        /\ ~HasCsvSuffix(supplied) => csvfile.name = supplied \o <<".", "c", "s", "v">>
        /\ Filename(Some(csvfile.name), request.mint_address,
                    request.snapshot_info) = csvfile.name
        /\ filename = csvfile.name

C25_Witness ==
    /\ Exported
    /\ request.filename = Some(<<"report">>)
    /\ csvfile.name = <<"report", ".", "c", "s", "v">>
    /\ filename = <<"report", ".", "c", "s", "v">>
    /\ holders # <<>>

\* ---- export_to_csv: the round trip
\* The Holder a data row is read back as: int() of the balance, float() of
\* the percentage, the other fields as they stand.
ParseHolder(row) ==
    LET decimals == Len(row[5]) - FirstIndex(row[5], ".") IN
    [address |-> row[2][1],
     owner |-> row[3][1],
     balance |-> ParseNat(row[4]),
     percentage |-> ParseDecimal(row[5], decimals),
     account_type |-> row[6][1]]

WellFormedRow(row) ==
    /\ Len(row) = 6
    /\ IsNumber(row[1]) /\ IsNumber(row[4])
    /\ Len(row[2]) = 1 /\ Len(row[3]) = 1 /\ Len(row[6]) = 1
    /\ FirstIndex(row[5], ".") > 0
    /\ IsDecimal(row[5], Len(row[5]) - FirstIndex(row[5], "."))

\* The Holders read back, placed at the rank their row carries.
RECURSIVE ParseRows(_)
ParseRows(rows) ==
    IF rows = <<>> THEN <<>>
    ELSE <<[rank |-> ParseNat(Head(rows)[1]), holder |-> ParseHolder(Head(rows))]>>
            \o ParseRows(Tail(rows))

Imported ==
    LET read == ParseRows(DataFields)
    IN  [k \in 1..Len(read) |->
            read[CHOOSE j \in 1..Len(read) : read[j].rank = k].holder]

\* C26: reading back the data rows of the file written (the lines left
\* after the '#'-lines, the blank line and the header row) gives the Holder
\* list that was exported, in the same ranking: account address, owner
\* address, balance and account type equal, percentage within 1e-6 of the
\* stored value.
C26_RoundTrip ==
    Exported =>
        LET content == ContentLines
            rows == DataFields
        IN  /\ content # <<>> /\ content[1] = HeaderLine
            /\ \A k \in 1..Len(rows) : WellFormedRow(rows[k])
            /\ \A k \in 1..Len(rows) :
                  \E j \in 1..Len(rows) : ParseNat(rows[j][1]) = k
            /\ Len(rows) = Len(holders)
            /\ LET imported == Imported IN
                \A k \in Indices(holders) :
                  /\ imported[k].address = holders[k].address
                  /\ imported[k].owner = holders[k].owner
                  /\ imported[k].balance = holders[k].balance
                  /\ imported[k].account_type = holders[k].account_type
                  /\ PctWithin(imported[k].percentage, holders[k].percentage, 1)

C26_Witness ==
    /\ Exported
    /\ Len(holders) = 2
    /\ holders[1].balance = 2 /\ holders[2].balance = 1
    /\ total_supply = 3
    /\ Len(Imported) = 2
    /\ Imported[1].percentage = [num |-> 66666667, den |-> 1000000]
    /\ Imported[1].percentage # holders[1].percentage
    /\ Imported[1].owner = holders[1].owner
    /\ Imported[2].owner = holders[2].owner

\* ---- the range display
Displayed == pc = "displayed"

RangeMode == request.start # None \/ request.end # None

\* The first and the last position of the range, max(1, start) and
\* min(end, N); an absent start is 1 and an absent end is N.
RangeFirst ==
    IF request.start = None \/ request.start[1] < 1 THEN 1 ELSE request.start[1]

RangeLast ==
    IF request.end = None \/ request.end[1] > Len(holders) THEN Len(holders)
    ELSE request.end[1]

\* C27: with --start and/or --end given, for every integer value of start
\* and end, the rows shown are exactly the holders at positions
\* max(1, start)..min(end, N) of the ranked list, the rank printed on each
\* row is that holder's position in the list, and a start beyond N shows
\* no table.
C27_RangeRowsAndRanks ==
    (Displayed /\ RangeMode) =>
        IF request.start # None /\ request.start[1] > Len(holders)
        THEN ~table_data.printed
        ELSE /\ Len(table_data.rows)
                   = (IF RangeLast < RangeFirst THEN 0
                      ELSE RangeLast - RangeFirst + 1)
             /\ \A k \in 1..Len(table_data.rows) :
                   /\ table_data.rows[k].rank = RangeFirst + k - 1
                   /\ RangeFirst + k - 1 \in Indices(holders)
                   /\ table_data.rows[k].holder = holders[RangeFirst + k - 1]

====
